---------------------------- MODULE Spec2Model ----------------------------
(***************************************************************************)
(* A model of the fuzzypatch library: Parse (parse.go), Search and Apply.  *)
(*                                                                         *)
(* Go strings are TLA+ strings, read byte by byte with Len, SubSeq and \o.  *)
(* A similarity threshold is a whole number of hundredths (50 is 0.5); the *)
(* thresholds used are dyadic, so the float64 comparison of the code and   *)
(* the exact comparison of the model agree on every string of the model.   *)
(*                                                                         *)
(* Three specifications share the variables: Spec (Search, followed by     *)
(* Apply of the edit found), SpecApply (Apply of a list of edits) and      *)
(* SpecParse (Parse of a diff text).                                       *)
(***************************************************************************)
EXTENDS Integers, Sequences, FiniteSets, TLC

VARIABLES
    \* the position of the call being followed
    pc,
    \* Search: its arguments, the loop's radius, the start lines whose chunk was
    \* compared so far, its results, and the result of Apply on the edit found
    source, diff, threshold, radius, examined, edit, ok, applied,
    \* Apply: its arguments, the sorted edits, the buffer, lastEnd, the index of
    \* the next edit and the error returned
    doc, edits, sorted, data, lastEnd, next, applyErr,
    \* Parse: its argument (and the segments it was made of), the token sequence,
    \* the parser's cursor and current token, and its results
    input, segs, tokens, pos, current, diffs, parseErr

searchVars == <<source, diff, threshold, radius, examined, edit, ok, applied>>
applyVars == <<doc, edits, sorted, data, lastEnd, next, applyErr>>
parseVars == <<input, segs, tokens, pos, current, diffs, parseErr>>
vars == <<pc, searchVars, applyVars, parseVars>>

-----------------------------------------------------------------------------
(* Bounds *)

\* pieces a document of Search is made of
MaxPieces == 3
\* pieces the search text of a Diff is made of
MaxSearchPieces == 2
\* bytes of the document of Apply
MaxDocLen == 3
\* edits in the list given to Apply
MaxEdits == 2
\* segments (blocks, well-formed or not) of a diff text
MaxSegments == 2

-----------------------------------------------------------------------------
(* Helpers of the Go runtime and standard library *)

NL == "\n"
CR == "\r"

\* the byte s[i-1] of a Go string, as a string
At(s, i) == SubSeq(s, i, i)

Min(a, b) == IF a < b THEN a ELSE b
Max(a, b) == IF a > b THEN a ELSE b

\* sequences over S of length at most n
SeqsUpTo(S, n) == UNION {[1..k -> S] : k \in 0..n}

\* strings.Join(ss, "")
RECURSIVE Join(_)
Join(ss) == IF ss = <<>> THEN "" ELSE Head(ss) \o Join(Tail(ss))

\* index of the first "\n" of s, 0 if there is none
RECURSIVE IndexNL(_, _)
IndexNL(s, i) ==
    IF i > Len(s) THEN 0
    ELSE IF At(s, i) = NL THEN i
    ELSE IndexNL(s, i + 1)

\* strings.SplitAfter(s, "\n")
RECURSIVE SplitAfter(_)
SplitAfter(s) ==
    LET i == IndexNL(s, 1)
    IN  IF i = 0 THEN <<s>>
        ELSE <<SubSeq(s, 1, i)>> \o SplitAfter(SubSeq(s, i + 1, Len(s)))

\* one row of the edit-distance table: cur holds columns 0..Len(cur)-1
RECURSIVE LevRow(_, _, _, _)
LevRow(prev, c, b, cur) ==
    IF Len(cur) = Len(b) + 1 THEN cur
    ELSE LET j == Len(cur)
             cost == IF At(b, j) = c THEN 0 ELSE 1
         IN  LevRow(prev, c, b,
                    Append(cur, Min(Min(prev[j + 1] + 1, cur[j] + 1), prev[j] + cost)))

RECURSIVE LevRows(_, _, _, _)
LevRows(a, b, i, prev) ==
    IF i > Len(a) THEN prev[Len(b) + 1]
    ELSE LevRows(a, b, i + 1, LevRow(prev, At(a, i), b, <<i>>))

\* levenshtein.ComputeDistance(a, b)
ComputeDistance(a, b) == LevRows(a, b, 1, [j \in 1..(Len(b) + 1) |-> j - 1])

-----------------------------------------------------------------------------
(* Search *)

\* the zero Edit
NoEdit == [Start |-> 0, End |-> 0, Text |-> ""]

trimSplit(s) ==
    LET lines == SplitAfter(s)
    IN  IF Len(lines) > 0 /\ lines[Len(lines)] = ""
        THEN SubSeq(lines, 1, Len(lines) - 1)
        ELSE lines

\* offsets[i] is the start byte of line i (lines counted from 0)
RECURSIVE offsetAt(_, _)
offsetAt(lines, i) ==
    IF i = 0 THEN 0 ELSE offsetAt(lines, i - 1) + Len(lines[i])

offsets(lines) == [i \in 0..Len(lines) |-> offsetAt(lines, i)]

\* similarityAtLeast with the comparison turned round
similarityAtMost(a, b, t) ==
    IF Len(a) = 0 /\ Len(b) = 0 THEN 100 <= t
    ELSE LET dist == ComputeDistance(a, b)
             m == Max(Len(a), Len(b))
         IN  100 * (m - dist) <= t * m

\* similarity(a, b) >= t, for t in hundredths
similarityAtLeast(a, b, t) ==
    IF Len(a) = 0 /\ Len(b) = 0 THEN 100 >= t
    ELSE LET dist == ComputeDistance(a, b)
             m == Max(Len(a), Len(b))
         IN  100 * (m - dist) >= t * m

\* clampHint without the step from the 1-based hint to the 0-based index
clampHintOneBased(line, nLines) == Max(0, Min(line, nLines - 1))

\* the hint clamped into the lines of the document
clampHint(line, nLines) == Max(0, Min(line - 1, nLines - 1))

\* leftOf going down the document instead of up
leftOfBelow(startIdx, r) == startIdx + r

\* the candidate above / at the hint
leftOf(startIdx, r) == startIdx - r

\* the candidate below the hint
rightOf(startIdx, r) == startIdx + r

\* rightInRange without the skip of radius 0
rightInRangeAtZero(right, r, nSearch, nLines) == right + nSearch <= nLines

leftInRange(left, nSearch, nLines) == left >= 0 /\ left + nSearch <= nLines

rightInRange(right, r, nSearch, nLines) == r > 0 /\ right + nSearch <= nLines

\* lines[i:i+n] joined
chunkAt(lines, i, n) == Join(SubSeq(lines, i + 1, i + n))

editAt(lines, i, n, d) ==
    [Start |-> offsets(lines)[i], End |-> offsets(lines)[i + n], Text |-> d.Replace]

\* one iteration of the loop of Search at radius r
SearchIteration(src, d, t, r) ==
    LET lines == trimSplit(src)
        nSearch == Len(trimSplit(d.Search))
        startIdx == clampHint(d.Line, Len(lines))
        left == leftOf(startIdx, r)
        right == rightOf(startIdx, r)
        triedLeft == leftInRange(left, nSearch, Len(lines))
        hitLeft == triedLeft /\ similarityAtLeast(chunkAt(lines, left, nSearch), d.Search, t)
        triedRight == ~hitLeft /\ rightInRange(right, r, nSearch, Len(lines))
        hitRight == triedRight /\ similarityAtLeast(chunkAt(lines, right, nSearch), d.Search, t)
    IN  [examined |-> (IF triedLeft THEN <<left>> ELSE <<>>)
                      \o (IF triedRight THEN <<right>> ELSE <<>>),
         step |-> IF hitLeft THEN "left"
                  ELSE IF hitRight THEN "right"
                  ELSE IF triedLeft \/ triedRight THEN "next"
                  ELSE "break",
         edit |-> IF hitLeft THEN editAt(lines, left, nSearch, d)
                  ELSE IF hitRight THEN editAt(lines, right, nSearch, d)
                  ELSE NoEdit]

\* the early returns of Search
SearchRejects(src, d) ==
    LET lines == trimSplit(src)
        nSearch == Len(trimSplit(d.Search))
    IN  Len(lines) = 0 \/ nSearch = 0 \/ nSearch > Len(lines)

\* Search as a function: the loop run from radius r
RECURSIVE SearchFrom(_, _, _, _)
SearchFrom(src, d, t, r) ==
    LET it == SearchIteration(src, d, t, r)
    IN  IF it.step \in {"left", "right"} THEN [edit |-> it.edit, ok |-> TRUE]
        ELSE IF it.step = "break" THEN [edit |-> NoEdit, ok |-> FALSE]
        ELSE SearchFrom(src, d, t, r + 1)

Search(src, d, t) ==
    IF SearchRejects(src, d) THEN [edit |-> NoEdit, ok |-> FALSE]
    ELSE SearchFrom(src, d, t, 0)

-----------------------------------------------------------------------------
(* Apply *)

\* editLess sorting lowest Start first
editLessAscending(a, b) == a.Start < b.Start

\* the order of sort.Slice in Apply: highest Start first
editLess(a, b) == a.Start > b.Start

\* sort.Slice on a short slice is an insertion sort: es[j] sinks while less
RECURSIVE sink(_, _)
sink(es, j) ==
    IF j > 1 /\ editLess(es[j], es[j - 1])
    THEN sink([es EXCEPT ![j] = es[j - 1], ![j - 1] = es[j]], j - 1)
    ELSE es

RECURSIVE insertionSort(_, _)
insertionSort(es, i) ==
    IF i > Len(es) THEN es ELSE insertionSort(sink(es, i), i + 1)

sortEdits(es) == insertionSort(es, 2)

\* range sanity, against the buffer as it is now
rangeInvalid(e, buf) == e.Start < 0 \/ e.End < e.Start \/ e.End > Len(buf)

\* overlap with a previously applied edit
overlaps(e, last) == e.End > last

\* data[:Start] + e.Text + data[End:]
splice(buf, e) == SubSeq(buf, 1, e.Start) \o e.Text \o SubSeq(buf, e.End + 1, Len(buf))

\* the loop of Apply from edit i of the sorted list
RECURSIVE ApplyFrom(_, _, _, _)
ApplyFrom(es, i, buf, last) ==
    IF i > Len(es) THEN [doc |-> buf, err |-> "nil"]
    ELSE IF rangeInvalid(es[i], buf) THEN [doc |-> "", err |-> "range"]
    ELSE IF overlaps(es[i], last) THEN [doc |-> "", err |-> "overlap"]
    ELSE ApplyFrom(es, i + 1, splice(buf, es[i]), es[i].Start)

Apply(src, es) ==
    IF Len(es) = 0 THEN [doc |-> src, err |-> "nil"]
    ELSE ApplyFrom(sortEdits(es), 1, src, Len(src))

-----------------------------------------------------------------------------
(* The state of the calls not followed by a specification *)

NoResult == [doc |-> "", err |-> "pending"]
NoDiff == [Line |-> 0, Search |-> "", Replace |-> ""]
noToken == [Type |-> "startSearchType", Line |-> 0, Text |-> ""]

SearchIdle ==
    /\ source = "" /\ diff = NoDiff /\ threshold = 0 /\ radius = 0
    /\ examined = <<>> /\ edit = NoEdit /\ ok = FALSE /\ applied = NoResult

ApplyIdle ==
    /\ doc = "" /\ edits = <<>> /\ sorted = <<>> /\ data = ""
    /\ lastEnd = 0 /\ next = 0 /\ applyErr = "pending"

ParseIdle ==
    /\ input = "" /\ segs = <<>> /\ tokens = <<>> /\ pos = 0
    /\ current = noToken /\ diffs = <<>> /\ parseErr = "pending"

-----------------------------------------------------------------------------
(* Parse *)

startSearchPrefix == "<<<<<<< SEARCH"
textSeparator == "======="
endReplace == ">>>>>>> REPLACE"
linePrefix == "line:"

DigitChars == "0123456789"
WhiteSpace == {" ", "\t", NL, CR}

\* strings.Lines(s): the lines of s, terminating newlines kept
RECURSIVE Lines(_)
Lines(s) ==
    IF s = "" THEN <<>>
    ELSE LET i == IndexNL(s, 1)
         IN  IF i = 0 THEN <<s>>
             ELSE <<SubSeq(s, 1, i)>> \o Lines(SubSeq(s, i + 1, Len(s)))

\* TrimRight with the cutset "\n" only
RECURSIVE TrimRightNewline(_)
TrimRightNewline(s) ==
    IF s # "" /\ At(s, Len(s)) = NL THEN TrimRightNewline(SubSeq(s, 1, Len(s) - 1))
    ELSE s

\* strings.TrimRight(s, "\r\n")
RECURSIVE TrimRight(_)
TrimRight(s) ==
    IF s # "" /\ At(s, Len(s)) \in {CR, NL} THEN TrimRight(SubSeq(s, 1, Len(s) - 1))
    ELSE s

RECURSIVE TrimLeftSpace(_)
TrimLeftSpace(s) ==
    IF s # "" /\ At(s, 1) \in WhiteSpace THEN TrimLeftSpace(Tail(s)) ELSE s

RECURSIVE TrimRightSpace(_)
TrimRightSpace(s) ==
    IF s # "" /\ At(s, Len(s)) \in WhiteSpace
    THEN TrimRightSpace(SubSeq(s, 1, Len(s) - 1))
    ELSE s

\* strings.TrimSpace(s)
TrimSpace(s) == TrimRightSpace(TrimLeftSpace(s))

\* strings.HasPrefix(s, prefix)
HasPrefix(s, prefix) ==
    Len(s) >= Len(prefix) /\ SubSeq(s, 1, Len(prefix)) = prefix

\* strings.CutPrefix(s, prefix)
CutPrefix(s, prefix) ==
    IF HasPrefix(s, prefix)
    THEN [after |-> SubSeq(s, Len(prefix) + 1, Len(s)), found |-> TRUE]
    ELSE [after |-> s, found |-> FALSE]

IsDigit(c) == \E d \in 1..10 : At(DigitChars, d) = c
DigitValue(c) == (CHOOSE d \in 1..10 : At(DigitChars, d) = c) - 1

RECURSIVE DigitsValue(_, _)
DigitsValue(s, acc) ==
    IF s = "" THEN acc ELSE DigitsValue(Tail(s), 10 * acc + DigitValue(At(s, 1)))

\* strconv.Atoi(s), for values within the range of int
Atoi(s) ==
    LET signed == s # "" /\ At(s, 1) \in {"+", "-"}
        digits == IF signed THEN Tail(s) ELSE s
    IN  IF digits = "" \/ \E i \in 1..Len(digits) : ~IsDigit(At(digits, i))
        THEN [val |-> 0, ok |-> FALSE]
        ELSE [val |-> IF signed /\ At(s, 1) = "-" THEN 0 - DigitsValue(digits, 0)
                      ELSE DigitsValue(digits, 0),
              ok |-> TRUE]

invalidToken == [Type |-> "invalidType", Line |-> 0, Text |-> ""]
eofToken == [Type |-> "EOF", Line |-> 0, Text |-> ""]

\* the type tokenize gives a line
lineType(line) ==
    IF HasPrefix(line, startSearchPrefix) THEN "startSearchType"
    ELSE IF TrimRight(line) = textSeparator THEN "textSeparatorType"
    ELSE IF TrimRight(line) = endReplace THEN "endReplaceType"
    ELSE "textType"

\* the whole sequence tokenize yields when it is never stopped
tokenize(s) ==
    LET lines == Lines(s)
    IN  [i \in 1..Len(lines) |->
            [Type |-> lineType(lines[i]), Line |-> i - 1, Text |-> lines[i]]]
        \o <<eofToken>>

\* parser.read: a parser is [current, pos], pos the place of the token the
\* pulled iterator gives next; the token read is the old p.current
read(p, toks) ==
    IF p.pos <= Len(toks)
    THEN [current |-> toks[p.pos], pos |-> p.pos + 1]
    ELSE [current |-> invalidToken, pos |-> p.pos]

\* parser.expect
expect(p, toks, typ) ==
    [p |-> read(p, toks), tok |-> p.current, failed |-> p.current.Type # typ]

\* the loop of parseStartSearch over blank text lines
RECURSIVE skipBlank(_, _)
skipBlank(p, toks) ==
    IF p.current.Type = "textType" /\ TrimSpace(p.current.Text) = ""
    THEN skipBlank(read(p, toks), toks)
    ELSE p

\* parser.parseStartSearch
parseStartSearch(p, toks) ==
    LET ex == expect(skipBlank(p, toks), toks, "startSearchType")
        suffix == CutPrefix(ex.tok.Text, startSearchPrefix).after
        cut == CutPrefix(TrimSpace(suffix), linePrefix)
        num == Atoi(cut.after)
    IN  IF ex.failed THEN [p |-> ex.p, line |-> 0, err |-> "expected"]
        ELSE IF ~cut.found THEN [p |-> ex.p, line |-> 0, err |-> "suffix"]
        ELSE IF ~num.ok THEN [p |-> ex.p, line |-> 0, err |-> "atoi"]
        ELSE [p |-> ex.p, line |-> num.val, err |-> "nil"]

\* the loops of parseDiff over text tokens
RECURSIVE readText(_, _, _)
readText(p, toks, acc) ==
    IF p.current.Type = "textType"
    THEN readText(read(p, toks), toks, acc \o p.current.Text)
    ELSE [p |-> p, text |-> acc]

\* parser.parseDiff
parseDiff(p, toks) ==
    LET st == parseStartSearch(p, toks)
        se == readText(st.p, toks, "")
        sep == expect(se.p, toks, "textSeparatorType")
        re == readText(sep.p, toks, "")
        en == expect(re.p, toks, "endReplaceType")
    IN  IF st.err # "nil" THEN [p |-> st.p, diff |-> NoDiff, err |-> st.err]
        ELSE IF sep.failed THEN [p |-> sep.p, diff |-> NoDiff, err |-> "expected"]
        ELSE IF en.failed THEN [p |-> en.p, diff |-> NoDiff, err |-> "nil"]
        ELSE [p |-> en.p,
              diff |-> [Line |-> st.line, Search |-> se.text, Replace |-> re.text],
              err |-> "nil"]

-----------------------------------------------------------------------------
(* Specification Spec: Search(source, diff, threshold), then Apply of its edit *)

Pieces == {"a\n", "b\n", "a"}
Sources == {Join(ps) : ps \in SeqsUpTo(Pieces, MaxPieces)}
SearchTexts == {Join(ps) : ps \in SeqsUpTo(Pieces, MaxSearchPieces)}
Hints == 0..(MaxPieces + 1)
Replaces == {"xy\n"}
Thresholds == {0, 50, 100, 150}

Init ==
    /\ pc = "search"
    /\ source \in Sources
    /\ diff \in [Line : Hints, Search : SearchTexts, Replace : Replaces]
    /\ threshold \in Thresholds
    /\ radius = 0 /\ examined = <<>> /\ edit = NoEdit /\ ok = FALSE
    /\ applied = NoResult
    /\ ApplyIdle /\ ParseIdle

\* no lines, no search lines or more search lines than lines: not found
SearchReject ==
    /\ pc = "search"
    /\ SearchRejects(source, diff)
    /\ pc' = "notfound"
    /\ UNCHANGED <<source, diff, threshold, radius, examined, edit, ok, applied,
                 applyVars, parseVars>>

\* the hint is clamped and the loop entered at radius 0
SearchEnter ==
    /\ pc = "search"
    /\ ~SearchRejects(source, diff)
    /\ pc' = "loop"
    /\ UNCHANGED <<source, diff, threshold, radius, examined, edit, ok, applied,
                 applyVars, parseVars>>

\* an iteration whose left or right candidate meets the threshold
SearchFound ==
    /\ pc = "loop"
    /\ LET it == SearchIteration(source, diff, threshold, radius)
       IN  /\ it.step \in {"left", "right"}
           /\ examined' = examined \o it.examined
           /\ edit' = it.edit
    /\ ok' = TRUE
    /\ pc' = "found"
    /\ UNCHANGED <<source, diff, threshold, radius, applied,
                 applyVars, parseVars>>

\* an iteration that tried a candidate and goes on to the next radius
SearchWiden ==
    /\ pc = "loop"
    /\ LET it == SearchIteration(source, diff, threshold, radius)
       IN  /\ it.step = "next"
           /\ examined' = examined \o it.examined
    /\ radius' = radius + 1
    /\ UNCHANGED <<pc, source, diff, threshold, edit, ok, applied,
                 applyVars, parseVars>>

\* an iteration with both directions out of range: give up
SearchGiveUp ==
    /\ pc = "loop"
    /\ SearchIteration(source, diff, threshold, radius).step = "break"
    /\ pc' = "notfound"
    /\ UNCHANGED <<source, diff, threshold, radius, examined, edit, ok, applied,
                 applyVars, parseVars>>

\* the caller applies the edit found
ApplyFound ==
    /\ pc = "found"
    /\ applied' = Apply(source, <<edit>>)
    /\ pc' = "applied"
    /\ UNCHANGED <<source, diff, threshold, radius, examined, edit, ok,
                 applyVars, parseVars>>

Next ==
    \/ SearchReject
    \/ SearchEnter
    \/ SearchFound
    \/ SearchWiden
    \/ SearchGiveUp
    \/ ApplyFound

Spec == Init /\ [][Next]_vars

-----------------------------------------------------------------------------
(* Properties of Search *)

SrcLines == trimSplit(source)
NSearch == Len(trimSplit(diff.Search))

\* a range of NSearch lines starting at line i (from 0) lies inside the document
InDocument(i) == i >= 0 /\ i + NSearch <= Len(SrcLines)

\* the text of that range, and whether it is similar enough at threshold t
RangeText(i) == Join(SubSeq(SrcLines, i + 1, i + NSearch))
Meets(i, t) == similarityAtLeast(RangeText(i), diff.Search, t)

\* bytes of the document before line i
BytesBefore(i) == Len(Join(SubSeq(SrcLines, 1, i)))

\* the hint, clamped into [0, lineCount - 1]
ClampedHint ==
    IF diff.Line - 1 < 0 THEN 0
    ELSE IF diff.Line - 1 > Len(SrcLines) - 1 THEN Len(SrcLines) - 1
    ELSE diff.Line - 1

\* s, s-1, s+1, s-2, s+2, ... restricted to the ranges inside the document
RECURSIVE OrderFrom(_)
OrderFrom(r) ==
    IF r > Len(SrcLines) THEN <<>>
    ELSE (IF InDocument(ClampedHint - r) THEN <<ClampedHint - r>> ELSE <<>>)
         \o (IF r > 0 /\ InDocument(ClampedHint + r) THEN <<ClampedHint + r>> ELSE <<>>)
         \o OrderFrom(r + 1)

SearchOrder == OrderFrom(0)

\* the place in the order of the range an edit covers
PlaceIn(order, e) == CHOOSE k \in 1..Len(order) : BytesBefore(order[k]) = e.Start

Returned == pc \in {"found", "notfound", "applied"}

\* C1: Search returns not-found only when no range of NSearch lines inside the
\* document has similarity >= threshold with diff.Search, whatever the hint.
C1_NotFoundOnlyWithoutCandidate ==
    (pc = "notfound" /\ NSearch >= 1 /\ NSearch <= Len(SrcLines))
        => ~ \E i \in 0..(Len(SrcLines) - NSearch) : Meets(i, threshold)

\* the lines at the hinted line are byte-identical to a non-empty diff.Search
ExactAtHint ==
    /\ diff.Search # ""
    /\ diff.Line >= 1 /\ diff.Line <= Len(SrcLines)
    /\ InDocument(diff.Line - 1)
    /\ RangeText(diff.Line - 1) = diff.Search

\* C5: when the lines at the hinted line are byte-identical to a non-empty
\* diff.Search and the threshold is at most 1.0, Search returns ok with the edit
\* bounding exactly those lines and carrying diff.Replace, and Apply of that
\* edit returns the source with those lines replaced and all else unchanged.
C5_ExactMatchEndToEnd ==
    (Returned /\ ExactAtHint /\ threshold <= 100)
        => LET start == BytesBefore(diff.Line - 1)
               end == start + Len(diff.Search)
           IN  /\ pc # "notfound"
               /\ ok
               /\ edit = [Start |-> start, End |-> end, Text |-> diff.Replace]
               /\ pc = "applied" =>
                     applied = [doc |-> SubSeq(source, 1, start) \o diff.Replace
                                        \o SubSeq(source, end + 1, Len(source)),
                                err |-> "nil"]

C5_Witness ==
    /\ pc = "applied" /\ ExactAtHint /\ threshold = 100
    /\ NSearch = 2 /\ diff.Line = 2 /\ Len(SrcLines) = 3
    /\ diff.Replace # ""

\* C7: when Search returns ok, the ranges examined are a prefix of the order
\* s, s-1, s+1, s-2, s+2, ... (in-document ranges only), and the range returned
\* is the first of that order that meets the threshold.
C7_FirstAcceptable ==
    (pc \in {"found", "applied"})
        => LET order == SearchOrder
               k == Len(examined)
           IN  /\ ok
               /\ k >= 1 /\ k <= Len(order)
               /\ examined = SubSeq(order, 1, k)
               /\ Meets(order[k], threshold)
               /\ \A j \in 1..(k - 1) : ~Meets(order[j], threshold)
               /\ edit.Start = BytesBefore(order[k])
               /\ edit.End = BytesBefore(order[k] + NSearch)

\* a range is returned although a later range of the order is an exact match
C7_Witness ==
    /\ pc = "found"
    /\ Len(examined) >= 2
    /\ RangeText(examined[Len(examined)]) # diff.Search
    /\ LET order == SearchOrder
       IN  \E k \in 1..Len(order) :
              /\ k > Len(examined)
              /\ RangeText(order[k]) = diff.Search

\* C8: when Search returns ok at the threshold, it returns ok at every lower
\* threshold, with the same range or one earlier in the search order.
C8_ThresholdMonotone ==
    (pc \in {"found", "applied"})
        => LET order == SearchOrder
               place == PlaceIn(order, edit)
           IN  \A t2 \in Thresholds :
                  t2 <= threshold =>
                     LET res == Search(source, diff, t2)
                     IN  /\ res.ok
                         /\ PlaceIn(order, res.edit) <= place

\* the lower threshold returns a strictly earlier range
C8_Witness ==
    /\ pc = "found" /\ threshold = 100
    /\ Search(source, diff, 50).ok
    /\ PlaceIn(SearchOrder, Search(source, diff, 50).edit) < PlaceIn(SearchOrder, edit)

\* the first radius at which neither range lies inside the document
RECURSIVE DeadRadiusFrom(_)
DeadRadiusFrom(r) ==
    IF ~InDocument(ClampedHint - r) /\ ~InDocument(ClampedHint + r) THEN r
    ELSE DeadRadiusFrom(r + 1)

NoDuplicates(q) == \A i, j \in 1..Len(q) : i # j => q[i] # q[j]

\* C10: the loop of Search runs at most lineCount + 1 radii (the radius, which
\* every iteration that does not return raises by one, stays within
\* 0..lineCount), no start line is examined twice, and not-found is returned
\* from the loop at the first radius at which neither the above-hint nor the
\* below-hint range lies inside the document.
C10_SearchTerminates ==
    /\ radius <= Len(SrcLines)
    /\ NoDuplicates(examined)
    /\ (pc = "notfound" /\ ~SearchRejects(source, diff))
          => radius = DeadRadiusFrom(0)

\* a threshold no range can meet: the whole document is scanned, then not-found
C10_Witness ==
    /\ pc = "notfound" /\ threshold = 150
    /\ radius >= 2 /\ Len(examined) >= 3

-----------------------------------------------------------------------------
(* Specification SpecApply: Apply(doc, edits) *)

Bytes == "abcdefgh"
Docs == {SubSeq(Bytes, 1, n) : n \in {MaxDocLen - 1, MaxDocLen}}
Ranges ==
    {r \in (0..MaxDocLen) \X (0..MaxDocLen) : r[1] <= r[2]} \cup {<<-1, 0>>, <<1, 0>>}
Texts == {"", "xy"}
Edits == {[Start |-> r[1], End |-> r[2], Text |-> t] : r \in Ranges, t \in Texts}

InitApply ==
    /\ pc = "apply"
    /\ doc \in Docs
    /\ edits \in SeqsUpTo(Edits, MaxEdits)
    /\ sorted = <<>> /\ data = "" /\ lastEnd = 0 /\ next = 0
    /\ applyErr = "pending"
    /\ SearchIdle /\ ParseIdle

\* no edits: the source is returned
ApplyNone ==
    /\ pc = "apply"
    /\ Len(edits) = 0
    /\ data' = doc
    /\ applyErr' = "nil"
    /\ pc' = "returned"
    /\ UNCHANGED <<doc, edits, sorted, lastEnd, next,
                 searchVars, parseVars>>

\* the edits are sorted and the buffer set up
ApplySort ==
    /\ pc = "apply"
    /\ Len(edits) > 0
    /\ sorted' = sortEdits(edits)
    /\ data' = doc
    /\ lastEnd' = Len(doc)
    /\ next' = 1
    /\ pc' = "edits"
    /\ UNCHANGED <<doc, edits, applyErr,
                 searchVars, parseVars>>

ApplyRangeError ==
    /\ pc = "edits"
    /\ next <= Len(sorted)
    /\ rangeInvalid(sorted[next], data)
    /\ data' = ""
    /\ applyErr' = "range"
    /\ pc' = "returned"
    /\ UNCHANGED <<doc, edits, sorted, lastEnd, next,
                 searchVars, parseVars>>

ApplyOverlapError ==
    /\ pc = "edits"
    /\ next <= Len(sorted)
    /\ ~rangeInvalid(sorted[next], data)
    /\ overlaps(sorted[next], lastEnd)
    /\ data' = ""
    /\ applyErr' = "overlap"
    /\ pc' = "returned"
    /\ UNCHANGED <<doc, edits, sorted, lastEnd, next,
                 searchVars, parseVars>>

ApplySplice ==
    /\ pc = "edits"
    /\ next <= Len(sorted)
    /\ ~rangeInvalid(sorted[next], data)
    /\ ~overlaps(sorted[next], lastEnd)
    /\ data' = splice(data, sorted[next])
    /\ lastEnd' = sorted[next].Start
    /\ next' = next + 1
    /\ UNCHANGED <<pc, doc, edits, sorted, applyErr,
                 searchVars, parseVars>>

ApplyReturn ==
    /\ pc = "edits"
    /\ next > Len(sorted)
    /\ applyErr' = "nil"
    /\ pc' = "returned"
    /\ UNCHANGED <<doc, edits, sorted, data, lastEnd, next,
                 searchVars, parseVars>>

NextApply ==
    \/ ApplyNone
    \/ ApplySort
    \/ ApplyRangeError
    \/ ApplyOverlapError
    \/ ApplySplice
    \/ ApplyReturn

SpecApply == InitApply /\ [][NextApply]_vars

-----------------------------------------------------------------------------
(* Properties of Apply *)

InBounds(e) == 0 <= e.Start /\ e.Start <= e.End /\ e.End <= Len(doc)

\* the half-open ranges of two edits share a byte
ShareByte(a, b) == Max(a.Start, b.Start) < Min(a.End, b.End)

AllInBounds == \A i \in 1..Len(edits) : InBounds(edits[i])

\* C3: if every edit is within bounds and two of them share a byte, Apply fails
\* with the overlap error.
C3_OverlapRejected ==
    (/\ pc = "returned"
     /\ AllInBounds
     /\ \E i, j \in 1..Len(edits) : i # j /\ ShareByte(edits[i], edits[j]))
        => applyErr = "overlap"

SameOutcome(r1, r2) ==
    \/ r1.err # "nil" /\ r2.err # "nil"
    \/ r1.err = "nil" /\ r2.err = "nil" /\ r1.doc = r2.doc

\* C4: for in-bounds edits whose ranges are pairwise non-overlapping, Apply on
\* every permutation of the list has the same outcome as on the list itself.
C4_OrderIndependent ==
    (/\ pc = "returned"
     /\ AllInBounds
     /\ \A i, j \in 1..Len(edits) : i # j => ~ShareByte(edits[i], edits[j]))
        => \A f \in Permutations(1..Len(edits)) :
              SameOutcome([doc |-> data, err |-> applyErr],
                          Apply(doc, [i \in 1..Len(edits) |-> edits[f[i]]]))

\* the splice read off the original document from byte p on; placed says the
\* edit starting at p has been put down already
RECURSIVE SpliceFrom(_, _)
SpliceFrom(p, placed) ==
    IF ~placed /\ \E i \in 1..Len(edits) : edits[i].Start = p
    THEN LET e == edits[CHOOSE i \in 1..Len(edits) : edits[i].Start = p]
         IN  e.Text \o (IF e.End > p THEN SpliceFrom(e.End, FALSE)
                        ELSE SpliceFrom(p, TRUE))
    ELSE IF p >= Len(doc) THEN ""
    ELSE At(doc, p + 1) \o SpliceFrom(p + 1, FALSE)

\* distinct Starts that, ordered by Start, satisfy 0 <= S1, Si <= Ei,
\* Ei <= S(i+1), En <= len(doc)
DisjointChain ==
    /\ AllInBounds
    /\ \A i, j \in 1..Len(edits) :
          i # j => /\ edits[i].Start # edits[j].Start
                   /\ edits[i].Start < edits[j].Start => edits[i].End <= edits[j].Start

\* C9: for edits with distinct Starts forming a disjoint chain, Apply returns no
\* error and d[0:S1] + T1 + d[E1:S2] + ... + Tn + d[En:]; for no edits, d.
C9_ReferenceSplice ==
    (pc = "returned" /\ DisjointChain)
        => /\ applyErr = "nil"
           /\ data = SpliceFrom(0, FALSE)

\* two adjacent edits given lowest Start first, one shrinking and one growing
C9_Witness ==
    /\ pc = "returned" /\ DisjointChain /\ Len(edits) = 2
    /\ edits[1].Start < edits[2].Start
    /\ edits[1].End = edits[2].Start
    /\ edits[1].End - edits[1].Start > Len(edits[1].Text)
    /\ edits[2].End - edits[2].Start < Len(edits[2].Text)

-----------------------------------------------------------------------------
(* Specification SpecParse: Parse(input) *)

RECURSIVE natToStr(_)
natToStr(n) ==
    IF n < 10 THEN At(DigitChars, n + 1)
    ELSE natToStr(n \div 10) \o At(DigitChars, (n % 10) + 1)

\* an integer in decimal
intToStr(n) == IF n < 0 THEN "-" \o natToStr(0 - n) ELSE natToStr(n)

\* a block of the notation: blank lines, the start marker with its hint, the
\* search lines, the separator, the replace lines, the end marker
BlockText(blanks, hint, eol, search, replace) ==
    Join(blanks) \o startSearchPrefix \o " " \o linePrefix \o intToStr(hint) \o eol
    \o Join(search) \o textSeparator \o eol
    \o Join(replace) \o endReplace \o eol

\* wf: a well-formed block, holding diff; open: its last line has no newline;
\* noEnd: a replace body followed by something else than the end marker
Block(blanks, hint, eol, search, replace) ==
    [wf |-> TRUE, open |-> FALSE, noEnd |-> FALSE,
     text |-> BlockText(blanks, hint, eol, search, replace),
     diff |-> [Line |-> hint, Search |-> Join(search), Replace |-> Join(replace)]]

Broken(noEnd, lines) ==
    [wf |-> FALSE, open |-> FALSE, noEnd |-> noEnd, text |-> Join(lines), diff |-> NoDiff]

LF == "\n"
CRLF == "\r\n"
startLine(hint, eol) == startSearchPrefix \o " " \o linePrefix \o intToStr(hint) \o eol

Blocks ==
    {Block(blanks, h[1], h[2], search, replace) :
        blanks \in {<<>>, <<CRLF>>},
        h \in {<<2, LF>>, <<-13, CRLF>>},
        search \in {<<>>, <<"\n", "a\r\n">>},
        replace \in {<<>>, <<"b\n">>}}

\* a well-formed block whose end marker is the end of the input
OpenBlock ==
    [wf |-> TRUE, open |-> TRUE, noEnd |-> FALSE,
     text |-> startLine(7, LF) \o "a\n" \o textSeparator \o LF \o endReplace,
     diff |-> [Line |-> 7, Search |-> "a\n", Replace |-> ""]]

BrokenBlocks ==
    { \* the replace body runs into whatever follows
      Broken(TRUE, <<startLine(2, LF), "a\n", textSeparator \o LF, "b\n">>),
      \* a second separator where the end marker should be
      Broken(TRUE, <<startLine(2, LF), textSeparator \o LF, "b\n", textSeparator \o LF>>),
      \* another start marker where the end marker should be
      Broken(TRUE, <<startLine(2, LF), textSeparator \o LF, startLine(3, LF)>>),
      \* no separator
      Broken(FALSE, <<startLine(2, LF), "a\n", endReplace \o LF>>),
      \* text outside a block
      Broken(FALSE, <<"a\n">>),
      \* a blank line
      Broken(FALSE, <<LF>>),
      \* a start marker without the line: suffix
      Broken(FALSE, <<startSearchPrefix \o LF, textSeparator \o LF, endReplace \o LF>>),
      \* a hint that is no integer
      Broken(FALSE, <<startSearchPrefix \o " " \o linePrefix \o "x\n",
                      textSeparator \o LF, endReplace \o LF>>) }

Segments == Blocks \cup {OpenBlock} \cup BrokenBlocks

RECURSIVE JoinTexts(_)
JoinTexts(ss) == IF ss = <<>> THEN "" ELSE Head(ss).text \o JoinTexts(Tail(ss))

InitParse ==
    /\ pc = "parse"
    /\ segs \in SeqsUpTo(Segments, MaxSegments)
    /\ input = JoinTexts(segs)
    /\ tokens = <<>> /\ pos = 0 /\ current = noToken /\ diffs = <<>>
    /\ parseErr = "pending"
    /\ SearchIdle /\ ApplyIdle

\* the token sequence is set up and the first token read
ParseBegin ==
    /\ pc = "parse"
    /\ tokens' = tokenize(input)
    /\ LET p == read([current |-> noToken, pos |-> 1], tokens')
       IN  current' = p.current /\ pos' = p.pos
    /\ pc' = "diffs"
    /\ UNCHANGED <<input, segs, diffs, parseErr, searchVars, applyVars>>

\* parseDiff returns a Diff and no error: it is appended
ParseAppend ==
    /\ pc = "diffs"
    /\ current.Type # "EOF"
    /\ LET r == parseDiff([current |-> current, pos |-> pos], tokens)
       IN  /\ r.err = "nil"
           /\ diffs' = Append(diffs, r.diff)
           /\ current' = r.p.current
           /\ pos' = r.p.pos
    /\ UNCHANGED <<pc, input, segs, tokens, parseErr, searchVars, applyVars>>

\* parseDiff returns an error: Parse returns it, and no Diffs
ParseError ==
    /\ pc = "diffs"
    /\ current.Type # "EOF"
    /\ LET r == parseDiff([current |-> current, pos |-> pos], tokens)
       IN  /\ r.err # "nil"
           /\ parseErr' = r.err
           /\ current' = r.p.current
           /\ pos' = r.p.pos
    /\ diffs' = <<>>
    /\ pc' = "parsed"
    /\ UNCHANGED <<input, segs, tokens, searchVars, applyVars>>

\* the current token is EOF: Parse returns the Diffs
ParseReturn ==
    /\ pc = "diffs"
    /\ current.Type = "EOF"
    /\ parseErr' = "nil"
    /\ pc' = "parsed"
    /\ UNCHANGED <<input, segs, tokens, pos, current, diffs, searchVars, applyVars>>

NextParse ==
    \/ ParseBegin
    \/ ParseAppend
    \/ ParseError
    \/ ParseReturn

SpecParse == InitParse /\ [][NextParse]_vars

-----------------------------------------------------------------------------
(* Properties of Parse *)

\* every segment up to i is a well-formed block ending in a newline
BlocksBefore(i) == \A j \in 1..(i - 1) : segs[j].wf /\ ~segs[j].open

\* C2: when a replace body is followed by anything else than the end marker,
\* Parse returns an error and no Diffs.
C2_MissingEndIsError ==
    (pc = "parsed" /\ \E i \in 1..Len(segs) : segs[i].noEnd /\ BlocksBefore(i))
        => parseErr # "nil" /\ diffs = <<>>

\* k >= 0 well-formed blocks and nothing after the last end marker
WellFormedInput ==
    /\ \A i \in 1..Len(segs) : segs[i].wf
    /\ BlocksBefore(Len(segs))

\* C6: for k well-formed blocks, Parse returns no error and exactly k Diffs in
\* input order, each with the hint, the search lines and the replace lines of
\* its block, byte for byte.
C6_ParseRoundTrip ==
    (pc = "parsed" /\ WellFormedInput)
        => /\ parseErr = "nil"
           /\ diffs = [i \in 1..Len(segs) |-> segs[i].diff]

\* two blocks, the second after a blank line, with CRLF and payload blank lines
C6_Witness ==
    /\ pc = "parsed" /\ WellFormedInput /\ Len(segs) = 2
    /\ segs[1].diff.Line # segs[2].diff.Line
    /\ segs[1].diff.Search # "" /\ segs[2].diff.Replace # ""
    /\ HasPrefix(segs[2].text, CRLF)
    /\ Len(diffs) = 2

=============================================================================
